---- MODULE Spec2Model ----
(***************************************************************************)
(* One top-to-bottom run of lab.ipynb: the notebook prepares the Iris      *)
(* dataset, uploads two of its three partitions to Amazon S3 and submits   *)
(* one SageMaker hyperparameter tuning job.                                *)
(*                                                                         *)
(* Python values: a str is a TLA+ string; a name that may hold None is a   *)
(* tagged tuple (None, Str(s)). A DataFrame is the sequence of the rows it *)
(* holds, a row being its position (1-based) in iris.csv; the four feature *)
(* columns are not modelled.                                               *)
(***************************************************************************)
EXTENDS Integers, Sequences, FiniteSets, TLC

VARIABLES
    pc,                     \* the statement the run executes next
    err,                    \* "none", or the statement whose exception stopped the run
    role,                   \* role = get_execution_role()
    buckets,                \* the names in boto3.client("s3").list_buckets()["Buckets"]
    bucket,                 \* bucket = next((...), None)
    data,                   \* data = pd.read_csv("./iris.csv"): row position -> Species
    train_data,
    remaining_data,
    validation_data,
    test_data,
    files,                  \* the CSV files written to the working directory
    training_image,
    train_s3_key,
    validation_s3_key,
    s3_input_train,
    s3_input_validation,
    s3,                     \* the objects of Amazon S3 put there by this run
    tuning_job_config,
    training_job_definition,
    requests,               \* the create_hyper_parameter_tuning_job calls made
    hpo                     \* the tuning job inside the SageMaker service

nbvars == <<pc, err, role, buckets, bucket, data, train_data, remaining_data,
            validation_data, test_data, files, training_image, train_s3_key,
            validation_s3_key, s3_input_train, s3_input_validation, s3,
            tuning_job_config, training_job_definition, requests>>

vars == <<pc, err, role, buckets, bucket, data, train_data, remaining_data,
          validation_data, test_data, files, training_image, train_s3_key,
          validation_s3_key, s3_input_train, s3_input_validation, s3,
          tuning_job_config, training_job_definition, requests, hpo>>

(***************************************************************************)
(* Bounds of the model.                                                    *)
(***************************************************************************)
\* list_buckets returns at most this many buckets
MaxBuckets == 2
\* besides the Iris dataset, iris.csv may hold up to this many rows per species
MaxClassRows == 4

(***************************************************************************)
(* Python values and strings.                                              *)
(***************************************************************************)
None == <<"NoneType">>
Str(s) == <<"str", s>>
Unbound == <<"unbound">>

\* str(v), as "{}".format(v) renders it
PyStr(v) == IF v[1] = "str" THEN v[2] ELSE "None"

\* s.startswith(p)
StartsWith(s, p) == Len(p) <= Len(s) /\ SubSeq(s, 1, Len(p)) = p

\* s.endswith(p)
EndsWith(s, p) == Len(p) <= Len(s) /\ SubSeq(s, Len(s) - Len(p) + 1, Len(s)) = p

\* os.path.join(a, b) of posixpath
OsPathJoin(a, b) ==
    IF StartsWith(b, "/") THEN b
    ELSE IF a = "" \/ EndsWith(a, "/") THEN a \o b
    ELSE a \o "/" \o b

Min(a, b) == IF a <= b THEN a ELSE b

MinOf(S) == CHOOSE x \in S : \A y \in S : x <= y

RECURSIVE SumSeq(_)
SumSeq(s) == IF s = <<>> THEN 0 ELSE Head(s) + SumSeq(Tail(s))

\* the elements of a set of integers in ascending order
SortedSeq(S) ==
    LET rank == [x \in S |-> Cardinality({y \in S : y < x})]
    IN  [i \in 1..Cardinality(S) |-> CHOOSE x \in S : rank[x] = i - 1]

(***************************************************************************)
(* The dataset. iris.csv is an input of the run: the model reads either    *)
(* the Iris dataset or a small file, with the rows of a species together.  *)
(***************************************************************************)
\* the values of the Species column, in the order np.unique returns them
Species == <<"setosa", "versicolor", "virginica">>

\* rows per species of the Iris dataset (150 samples of three species)
IrisClassCounts == <<50, 50, 50>>

Datasets ==
    {<<a, b, c>> : a \in 0..MaxClassRows, b \in 0..MaxClassRows, c \in 0..MaxClassRows}
        \cup {IrisClassCounts}

\* the Species column of a file holding counts[k] rows of Species[k]
ReadCsv(counts) ==
    [i \in 1..SumSeq(counts) |->
        IF i <= counts[1] THEN Species[1]
        ELSE IF i <= counts[1] + counts[2] THEN Species[2]
        ELSE Species[3]]

\* the frame of a file: its rows in the order of the file
DataFrame(y) == [i \in 1..Len(y) |-> i]

\* the rows a frame holds
Rows(frame) == {frame[p] : p \in 1..Len(frame)}

\* the rows of `frame` whose label is Species[k]
ClassRows(frame, y, k) == {r \in Rows(frame) : y[r] = Species[k]}

\* np.bincount(y_indices), with 0 for a species the frame does not hold
ClassCounts(frame, y) == [k \in 1..3 |-> Cardinality(ClassRows(frame, y, k))]

(***************************************************************************)
(* IEEE 754 binary64 arithmetic, as far as the two splits use it. A double *)
(* x >= 0 is its integer part and its fraction; a fraction is Limbs digits *)
(* of Base, the most significant first, so that its bit of position i      *)
(* weighs 2^-i.                                                            *)
(***************************************************************************)
\* significant bits of a double
Precision == 53

\* bits of a digit of a fraction
LimbBits == 16

\* digits of a fraction: enough for the quotients a / b >= 2^-11
Limbs == 4

Base == 2^LimbBits

FracBits == Limbs * LimbBits

FloatOfInt(n) == [int |-> n, frac |-> [k \in 1..Limbs |-> 0]]

\* number of bits of the integer n > 0
BitLength(n) == CHOOSE k \in 1..30 : 2^(k - 1) <= n /\ n < 2^k

\* the digit that holds the bit of position i, and the weight of the bit in it
LimbOf(i) == (i - 1) \div LimbBits + 1

WeightOf(i) == 2^(LimbBits - 1 - ((i - 1) % LimbBits))

\* the bit of position i of the fraction f
Bit(f, i) == (f[LimbOf(i)] \div WeightOf(i)) % 2

\* the fraction whose only bit is the one of position i
Ulp(i) == [k \in 1..Limbs |-> IF k = LimbOf(i) THEN WeightOf(i) ELSE 0]

\* f without its bits after position i
Truncate(f, i) ==
    [k \in 1..Limbs |->
        IF k < LimbOf(i) THEN f[k]
        ELSE IF k = LimbOf(i) THEN f[k] - (f[k] % WeightOf(i))
        ELSE 0]

\* the digit of t plus the carry of the lower digits, put before them
PutDigit(t, low) ==
    [digits |-> <<(t + low.carry) % Base>> \o low.digits,
     carry  |-> (t + low.carry) \div Base]

RECURSIVE AddLimbs(_, _, _)
\* the digits k, k + 1, ... of f + g, and the carry out of them
AddLimbs(f, g, k) ==
    IF k > Limbs THEN [digits |-> <<>>, carry |-> 0]
    ELSE PutDigit(f[k] + g[k], AddLimbs(f, g, k + 1))

RECURSIVE MulLimbs(_, _, _)
\* the digits k, k + 1, ... of f * n, and the carry out of them
MulLimbs(f, n, k) ==
    IF k > Limbs THEN [digits |-> <<>>, carry |-> 0]
    ELSE PutDigit(f[k] * n, MulLimbs(f, n, k + 1))

RECURSIVE DivLimbs(_, _, _)
\* the digits k, k + 1, ... of the long division of r < b by b, and the
\* remainder after the last
DivLimbs(r, b, k) ==
    IF k > Limbs THEN [digits |-> <<>>, rem |-> r]
    ELSE LET low == DivLimbs((r * Base) % b, b, k + 1)
         IN  [digits |-> <<(r * Base) \div b>> \o low.digits, rem |-> low.rem]

\* the position of the last significant bit of x > 0 in its fraction
LastBit(x) ==
    IF x.int > 0 THEN Precision - BitLength(x.int)
    ELSE MinOf({i \in 1..FracBits : Bit(x.frac, i) = 1}) + Precision - 1

\* the integer part n and the fraction `up`, whose carry goes to n
Carried(n, up) == [int |-> n + up.carry, frac |-> up.digits]

\* x rounded at fraction position `last`, to nearest and ties to even
RoundAt(x, more, last) ==
    IF ~more /\ last >= FracBits THEN x
    ELSE IF /\ Bit(x.frac, last + 1) = 1
            /\ \/ more
               \/ \E i \in (last + 2)..FracBits : Bit(x.frac, i) = 1
               \/ Bit(x.frac, last) = 1
    THEN Carried(x.int, AddLimbs(Truncate(x.frac, last), Ulp(last), 1))
    ELSE [int |-> x.int, frac |-> Truncate(x.frac, last)]

\* the double nearest to an exact value: x holds the integer part and the
\* first FracBits bits of the fraction, `more` tells whether the exact value
\* has further bits
RoundNearestEven(x, more) ==
    IF x.int = 0 /\ \A k \in 1..Limbs : x.frac[k] = 0 THEN x
    ELSE RoundAt(x, more, LastBit(x))

\* a / b of two integers 0 <= a <= b, b > 0
FloatDiv(a, b) ==
    IF a = b THEN FloatOfInt(1)
    ELSE LET q == DivLimbs(a, b, 1)
         IN  RoundNearestEven([int |-> 0, frac |-> q.digits], q.rem # 0)

\* x * n of a double and an integer n >= 0
FloatMul(x, n) ==
    LET p == MulLimbs(x.frac, n, 1)
    IN  RoundNearestEven([int |-> x.int * n + p.carry, frac |-> p.digits], FALSE)

\* np.floor(x)
Floor(x) == x.int

\* math.ceil(x)
Ceil(x) == IF \E k \in 1..Limbs : x.frac[k] # 0 THEN x.int + 1 ELSE x.int

\* x - np.floor(x): the subtraction is exact
Fraction(x) == [k \in 1..Limbs |-> x.frac[k]]

\* f < g of two fractions
FracLess(f, g) ==
    \E k \in 1..Limbs : f[k] < g[k] /\ \A j \in 1..(k - 1) : f[j] = g[j]

(***************************************************************************)
(* numpy.random.RandomState(1729), the generator check_random_state makes  *)
(* of random_state=1729 for each of the two splits. A generator state is   *)
(* the number of 32-bit outputs drawn so far.                              *)
(***************************************************************************)
\* the first outputs of genrand_int32 after init_genrand(1729), each mod 2^16
Mt19937 ==
    <<
        1677,  3174,  1267, 54821, 60949, 44414, 46147, 38797, 23385,  8507, 43555,  1217,
       56923, 58788, 39657, 58569, 29039, 28253, 24915, 39851, 28886, 54572, 33171, 16179,
       38860, 53616, 17275, 18828, 22170,  4477, 64555, 45312, 61161, 24874, 43957, 11934,
       21313, 37635, 22209, 36133, 39026, 18884, 48448, 34007, 15067, 26756, 59718,  1527,
       54026, 46002,  5672,  7458, 59552, 43111, 22797, 49385, 48135,  8164, 23005, 38095,
       53776, 23010, 56961, 52515, 13580, 11148, 18652, 63777, 60155, 40618, 61607, 22835,
        5833, 38042, 39027, 49267,   871, 59829, 26050, 57433, 32877, 56614,  1160, 10921,
       54145, 48495, 43088, 14784, 10733, 18735, 42455,  5390, 32624, 17705, 58341, 18284,
       59021, 44125,  3885, 36026,  5211, 53932, 64607, 63592, 25606, 61196,    79, 52045,
        9074, 10876, 33232,  7005, 50746, 44219, 51774, 31023, 40170, 49422, 64198, 11541,
       51771,  6000, 23158, 27156, 36903, 51604, 24054, 46125, 18741,  7359, 43828, 24139,
       14052, 44328, 26808, 52612, 12569,  4761, 31462, 58869, 39733, 28371, 54532, 16650,
       38400,  2324, 13486, 32347, 23014, 36895, 54085, 37182, 55539, 35925, 64012, 59758,
       17871, 28760,  5307, 28607, 50166, 13670, 59798, 11888, 55712, 44677,  7088, 58787,
       39698, 11877, 56813, 47444, 46978, 17470, 42760, 11814, 49961, 35060, 33299, 13156,
       25928, 46275, 62064, 61653, 10902, 16490,  9785, 33839, 10423, 15978, 37166, 56687,
        8988, 40156, 29801, 57588,   946, 58678, 36747, 56787, 49185, 65301, 28069, 37954,
       30659, 62802, 36106, 60369, 55788, 55884, 13404, 43410, 62848, 63286, 51710, 49170,
       59175, 47329, 41034, 59372, 14502, 51041,  5320, 33222, 41767, 49061, 21172, 10630,
       55689, 37521, 24829, 40311, 12922, 64769, 33967, 37426, 44987, 58045, 54235, 44464,
       24813, 40980,  9984, 37729, 63629, 13661, 55519, 36140,  2474, 19191, 46536, 15743,
       15275,  3847, 16177, 10224,  5882, 20514, 64349, 43983, 29416, 29198, 35329, 60583,
       36493, 24768, 58609, 19673, 28182, 45307, 14276, 30473,  5627, 27950, 49744,  9390,
       29410, 39538, 60003, 33015, 56271, 40248, 42843, 28369, 35325, 42083, 25728, 35074,
       40246, 31393,  5072,  9486, 17345, 17634, 15723, 59042, 31281, 13798, 38910, 14739,
       13136, 57828, 37639, 50455,  1748, 35611, 22228, 65113, 33469, 45148, 45003, 48198,
       36930,  1435, 63831, 59993, 23409, 46876, 12436, 51144, 35025, 44633,  2636, 17465,
       32435, 12761, 40079,  7849, 34007, 58072, 46162, 25822, 39295, 51556,  9505, 19699,
       29983,  3073, 30303, 25846, 39568, 36175, 20255, 38536,  5287, 22382, 32373, 11008,
       49036, 34964, 19890, 11833, 37369, 41864,  6734, 28766, 48763, 27645, 27276, 62944,
       50691, 55038, 36162, 59513,  8057,  9846, 32781, 38464, 35563, 13634, 53086, 54714,
       44679,  1291, 39451, 19205, 39635, 24447, 36509,  4972,  5512, 55882, 17949,  1692,
        6057, 42286,  6107,  5524, 42575, 11378, 40758, 33855, 63513, 24664, 45206, 56946,
       31820, 41988, 13402, 57965, 62424,  1702, 62260, 35722, 63918, 30788, 57732, 39622,
        3902, 63569, 40041, 39886, 37154, 52905, 27271, 37047, 34776, 10448, 48718, 21963,
       19392, 60182, 24014, 54785,  6787,   245, 57067, 50194, 55084, 12676,  2750, 39472,
       60688, 50663,  6196, 48726, 41626, 40942, 58999, 18794,  8064, 54087, 53654, 52614,
       29593, 54542,  7187, 62158, 43567,  9635, 44454, 21839, 32646, 37643, 46811, 11211,
       31140,  6105, 15774, 56453, 22065, 31318, 32842, 42566, 43546, 59384, 44975, 65051,
       49633, 61877, 58787, 56612, 16652, 44674, 59207, 34222, 49287, 31283, 30850,  9991,
        5078, 51418, 20761, 53728, 27122, 35768, 34254, 47501, 30071, 48411, 22883, 57228,
       29067, 14514, 58107, 12083, 59351, 48093, 18405, 45990, 55260, 27810, 16896, 34314,
        5310, 16476, 19970, 31985, 34756, 22448, 22781, 54136
    >>

\* the smallest 2^k - 1 >= max, for max < 2^16
Mask(max) == (CHOOSE m \in {2^k : k \in 0..16} : max < m /\ m <= 2 * max + 1) - 1

RECURSIVE RandomInterval(_, _)
\* while ((value = next_uint32(state) & mask) > max);
Rejection(value, pos, max) ==
    IF value <= max THEN [value |-> value, pos |-> pos + 1]
    ELSE RandomInterval(pos + 1, max)

\* random_interval(state, max): a draw in 0..max by masking and rejection
RandomInterval(pos, max) ==
    IF max = 0 THEN [value |-> 0, pos |-> pos]
    ELSE Rejection(Mt19937[pos + 1] % (Mask(max) + 1), pos, max)

\* arr[i], arr[j] = arr[j], arr[i], of 0-based i and the draw j
Swap(arr, i, j) ==
    [arr |-> [arr EXCEPT ![i + 1] = arr[j.value + 1], ![j.value + 1] = arr[i + 1]],
     pos |-> j.pos]

\* j = random_interval(i); arr[i], arr[j] = arr[j], arr[i]
ShuffleStep(st, i) == Swap(st.arr, i, RandomInterval(st.pos, i))

RECURSIVE ShuffleRaw(_, _, _)
\* the steps hi, ..., lo after the upper half of them
LowerHalf(st, high, mid, lo) ==
    IF high.pos >= st.pos THEN ShuffleRaw(high, mid, lo) ELSE st

\* for i in reversed(range(lo, hi + 1)): the loop of RandomState.shuffle,
\* by halves; the test on the draws (they only advance) has the steps of
\* the upper half evaluated before those of the lower half
ShuffleRaw(st, hi, lo) ==
    IF hi < lo THEN st
    ELSE IF hi = lo THEN ShuffleStep(st, hi)
    ELSE LowerHalf(st, ShuffleRaw(st, hi, (hi + lo) \div 2 + 1), (hi + lo) \div 2, lo)

\* rng.permutation(x) of a sequence x: a shuffled copy
Shuffle(x, pos) == ShuffleRaw([arr |-> x, pos |-> pos], Len(x) - 1, 1)

\* rng.permutation(n) of an integer n, as positions 1..n
Permutation(n, pos) == Shuffle([i \in 1..n |-> i], pos)

\* a[p[:size]]
TakeFirst(a, size, p) == [arr |-> [i \in 1..size |-> a[p.arr[i]]], pos |-> p.pos]

\* rng.choice(a, size=size, replace=False): a[rng.permutation(len(a))[:size]]
Choice(a, size, pos) == TakeFirst(a, size, Permutation(Len(a), pos))

(***************************************************************************)
(* sklearn.model_selection.train_test_split(frame, test_size=num/den,      *)
(* random_state=1729, stratify=y), scikit-learn 1.5.1. A frame is the      *)
(* sequence of its rows; y gives the Species of a row.                     *)
(***************************************************************************)
\* test_size of the first split: the double 0.3
TestSize1 == <<3, 10>>

TestSize2Tenth == <<1, 10>>
\* test_size of the second split: the double 1 / 3
TestSize2 == <<1, 3>>

NoSizes == [ok |-> FALSE, n_train |-> 0, n_test |-> 0]

\* n_train = n_samples - n_test, and the ValueError of an empty train set
SplitSizes(n_samples, n_test) ==
    IF n_samples - n_test <= 0 THEN NoSizes
    ELSE [ok |-> TRUE, n_train |-> n_samples - n_test, n_test |-> n_test]

\* _validate_shuffle_split(n_samples, test_size, train_size=None)
ValidateShuffleSplit(n_samples, test_size) ==
    IF test_size[1] <= 0 \/ test_size[1] >= test_size[2] THEN NoSizes
    ELSE SplitSizes(n_samples,
                    Ceil(FloatMul(FloatDiv(test_size[1], test_size[2]), n_samples)))

RECURSIVE AddDraws(_, _, _, _, _)
\* floored[inds] += 1; need_to_add -= add_now, and the next value
Added(floored, remainder, values, need_to_add, chosen) ==
    AddDraws([k \in DOMAIN floored |->
                 floored[k] + (IF \E i \in DOMAIN chosen.arr : chosen.arr[i] = k THEN 1 ELSE 0)],
             remainder, Tail(values), need_to_add - Len(chosen.arr), chosen.pos)

\* the loop `for value in values` of _approximate_mode: the classes of the
\* largest remainder get one more draw each, rng.choice picking among ties
AddDraws(floored, remainder, values, need_to_add, pos) ==
    IF need_to_add = 0 \/ values = <<>>
    THEN [counts |-> floored, pos |-> pos]
    ELSE LET inds == SortedSeq({k \in DOMAIN remainder : remainder[k] = Head(values)})
         IN  Added(floored, remainder, values, need_to_add,
                   Choice(inds, Min(Len(inds), need_to_add), pos))

\* _approximate_mode from `continuous` on
Distribute(continuous, n_draws, pos) ==
    LET floored   == [k \in DOMAIN continuous |-> Floor(continuous[k])]
        remainder == [k \in DOMAIN continuous |-> Fraction(continuous[k])]
        unique    == {remainder[k] : k \in DOMAIN continuous}
        \* np.sort(np.unique(remainder))[::-1]
        values    == [i \in 1..Cardinality(unique) |->
                         CHOOSE v \in unique :
                             Cardinality({w \in unique : FracLess(v, w)}) = i - 1]
    IN  AddDraws(floored, remainder, values, n_draws - SumSeq(floored), pos)

\* _approximate_mode(class_counts, n_draws, rng)
ApproximateMode(class_counts, n_draws, pos) ==
    Distribute([k \in DOMAIN class_counts |->
                   FloatMul(FloatDiv(class_counts[k], SumSeq(class_counts)), n_draws)],
               n_draws, pos)

RECURSIVE PermuteClasses(_, _, _)
\* the permutation p of class i before those of the classes after it
PermutedFrom(class_counts, i, p) ==
    LET rest == PermuteClasses(class_counts, i + 1, p.pos)
    IN  [perms |-> <<p.arr>> \o rest.perms, pos |-> rest.pos]

\* rng.permutation(class_counts[i]) for i, i + 1, ...: one draw after the other
PermuteClasses(class_counts, i, pos) ==
    IF i > Len(class_counts) THEN [perms |-> <<>>, pos |-> pos]
    ELSE PermutedFrom(class_counts, i, Permutation(class_counts[i], pos))

RECURSIVE Extend(_)
\* the concatenation of the lists ll[1], ll[2], ...
Extend(ll) == IF ll = <<>> THEN <<>> ELSE Head(ll) \o Extend(Tail(ll))

NoSplit == [ok |-> FALSE, train |-> <<>>, test |-> <<>>]

\* the rows of the frame at the positions train and test
Indexed(frame, train, test) ==
    [ok    |-> TRUE,
     train |-> [j \in 1..Len(train) |-> frame[train[j]]],
     test  |-> [j \in 1..Len(test) |-> frame[test[j]]]]

\* ShuffleSplit._iter_indices: what train_test_split uses without stratify
ShuffleSplit(frame, y, n_train, n_test) ==
    LET permutation == Permutation(Len(frame), 0).arr
    IN  Indexed(frame, SubSeq(permutation, n_test + 1, n_test + n_train),
                       SubSeq(permutation, 1, n_test))

\* train = rng.permutation(train); test = rng.permutation(test)
ShuffleBoth(frame, train, test) == Indexed(frame, train.arr, Shuffle(test, train.pos).arr)

\* class_indices[i].take(permutation)[from - 1 : to]
Take(indices, permutation, from, to) ==
    [j \in 1..(to - from + 1) |-> indices[permutation[from + j - 1]]]

\* the loop `for i in range(n_classes)`: the first n_i[i] rows of the
\* permuted class i go to train, the next t_i[i] to test
TakeClasses(frame, class_indices, n_i, t_i, drawn) ==
    ShuffleBoth(frame,
        Shuffle(Extend([i \in DOMAIN n_i |->
                    Take(class_indices[i], drawn.perms[i], 1, n_i[i])]), drawn.pos),
        Extend([i \in DOMAIN n_i |->
                    Take(class_indices[i], drawn.perms[i], n_i[i] + 1, n_i[i] + t_i[i])]))

\* the permutations of the classes, drawn after n_i and t_i
DrawClasses(frame, class_indices, class_counts, n_i, t_i) ==
    TakeClasses(frame, class_indices, n_i.counts, t_i.counts,
                PermuteClasses(class_counts, 1, t_i.pos))

\* t_i = _approximate_mode(class_counts - n_i, n_test, rng)
DrawTest(frame, class_indices, class_counts, n_test, n_i) ==
    DrawClasses(frame, class_indices, class_counts, n_i,
                ApproximateMode([i \in DOMAIN class_counts |-> class_counts[i] - n_i.counts[i]],
                                n_test, n_i.pos))

\* n_i = _approximate_mode(class_counts, n_train, rng), with a new generator
IterIndices(frame, class_indices, class_counts, n_train, n_test) ==
    DrawTest(frame, class_indices, class_counts, n_test,
             ApproximateMode(class_counts, n_train, 0))

\* StratifiedShuffleSplit._iter_indices and the indexing of the frame by
\* its result; ok is FALSE when the split raises ValueError
StratifiedShuffleSplit(frame, y, n_train, n_test) ==
    LET \* np.unique(y): the species the frame holds, sorted
        classes       == SelectSeq(<<1, 2, 3>>, LAMBDA k : ClassRows(frame, y, k) # {})
        \* the positions in the frame of each class, ascending (a stable argsort)
        class_indices == [i \in 1..Len(classes) |->
                             SelectSeq([p \in 1..Len(frame) |-> p],
                                       LAMBDA p : y[frame[p]] = Species[classes[i]])]
        class_counts  == [i \in 1..Len(classes) |-> Len(class_indices[i])]
    IN  IF \/ \E i \in 1..Len(classes) : class_counts[i] < 2
           \/ n_train < Len(classes)
           \/ n_test < Len(classes)
        THEN NoSplit
        ELSE IterIndices(frame, class_indices, class_counts, n_train, n_test)

\* the split of the sizes v, when _validate_shuffle_split did not raise
SplitOfSizes(frame, y, v) ==
    IF v.ok THEN StratifiedShuffleSplit(frame, y, v.n_train, v.n_test) ELSE NoSplit

\* train_test_split(frame, test_size=..., random_state=1729, stratify=y)
TrainTestSplit(frame, y, test_size) ==
    SplitOfSizes(frame, y, ValidateShuffleSplit(Len(frame), test_size))

(***************************************************************************)
(* The run. A run executes the notebook's statements once, top to bottom.  *)
(* No cell holds a try statement: an exception ends the run where it is    *)
(* raised.                                                                 *)
(***************************************************************************)
StepOrder ==
    <<"install", "imports", "role", "storage", "load", "split1", "split2",
      "write_train", "write_validation", "write_test", "image", "keys",
      "upload_train", "upload_validation", "tuning_config", "training_def",
      "launch", "done">>

StepIndex(step) == CHOOSE i \in 1..Len(StepOrder) : StepOrder[i] = step

Succ(step) == StepOrder[StepIndex(step) + 1]

\* the statement the run is at, or stopped at
Position == IF pc = "halted" THEN StepIndex(err) ELSE StepIndex(pc)

\* whether the run has executed `step` to its end
Executed(step) == Position > StepIndex(step)

\* the statement ends normally
Proceed(step) == pc' = Succ(step) /\ err' = err

RaiseSwallowed(step) == pc' = Succ(step) /\ err' = step
\* the statement raises: nothing catches the exception
Raise(step) == pc' = "halted" /\ err' = step

NoDict == [unbound |-> TRUE]

Init ==
    /\ pc = "install"
    /\ err = "none"
    /\ role = Unbound
    /\ buckets = <<>>
    /\ bucket = Unbound
    /\ data = <<>>
    /\ train_data = <<>>
    /\ remaining_data = <<>>
    /\ validation_data = <<>>
    /\ test_data = <<>>
    /\ files = {}
    /\ training_image = Unbound
    /\ train_s3_key = ""
    /\ validation_s3_key = ""
    /\ s3_input_train = ""
    /\ s3_input_validation = ""
    /\ s3 = {}
    /\ tuning_job_config = NoDict
    /\ training_job_definition = NoDict
    /\ requests = <<>>
    /\ hpo = [status |-> "absent", limits |-> NoDict, started |-> 0, running |-> 0]

\* !pip install ...: a shell escape, whose failure raises nothing
PipInstall ==
    /\ pc = "install"
    /\ \E pip_ok \in BOOLEAN : Proceed("install")
    /\ UNCHANGED <<role, buckets, bucket, data, train_data, remaining_data, validation_data,
                   test_data, files, training_image, train_s3_key, validation_s3_key,
                   s3_input_train, s3_input_validation, s3, tuning_job_config,
                   training_job_definition, requests, hpo>>

\* the imports, region = boto3.Session().region_name, smclient = ...client("sagemaker")
Imports ==
    /\ pc = "imports"
    /\ Proceed("imports") \/ Raise("imports")
    /\ UNCHANGED <<role, buckets, bucket, data, train_data, remaining_data, validation_data,
                   test_data, files, training_image, train_s3_key, validation_s3_key,
                   s3_input_train, s3_input_validation, s3, tuning_job_config,
                   training_job_definition, requests, hpo>>

\* role = get_execution_role()
GetRole ==
    /\ pc = "role"
    /\ \/ role' = Str("arn:aws:iam::123456789012:role/lab") /\ Proceed("role")
       \/ role' = role /\ Raise("role")
    /\ UNCHANGED <<buckets, bucket, data, train_data, remaining_data, validation_data,
                   test_data, files, training_image, train_s3_key, validation_s3_key,
                   s3_input_train, s3_input_validation, s3, tuning_job_config,
                   training_job_definition, requests, hpo>>

prefix == "iris"

BucketNames == {"lab-notebook-1", "lab-notebook-2", "lab-notebook"}

\* what boto3.client("s3").list_buckets()["Buckets"] may hold
BucketListings ==
    UNION {{l \in [1..n -> BucketNames] : \A i \in 1..n : \A j \in 1..n : l[i] = l[j] => i = j}
               : n \in 0..MaxBuckets}

MatchingBuckets(listing) == {i \in 1..Len(listing) : StartsWith(listing[i], "lab-notebook-")}

LastMatch(listing) ==
    LET m == MatchingBuckets(listing)
    IN  IF m = {} THEN None ELSE Str(listing[CHOOSE i \in m : \A j \in m : j <= i])
\* next((b["Name"] for b in Buckets if b["Name"].startswith("lab-notebook-")), None)
FirstMatch(listing) ==
    LET m == MatchingBuckets(listing)
    IN  IF m = {} THEN None ELSE Str(listing[CHOOSE i \in m : \A j \in m : i <= j])

\* prefix = "iris"; bucket = next(...); session = sagemaker.Session(default_bucket=bucket)
ConfigureStorage ==
    /\ pc = "storage"
    /\ \/ UNCHANGED <<buckets, bucket>> /\ Raise("storage")       \* list_buckets raises
       \/ \E listing \in BucketListings :
             /\ buckets' = listing
             /\ bucket' = FirstMatch(listing)
             /\ Proceed("storage") \/ Raise("storage")           \* sagemaker.Session raises
    /\ UNCHANGED <<role, data, train_data, remaining_data, validation_data,
                   test_data, files, training_image, train_s3_key, validation_s3_key,
                   s3_input_train, s3_input_validation, s3, tuning_job_config,
                   training_job_definition, requests, hpo>>

\* data = pd.read_csv("./iris.csv", sep=",")
LoadData ==
    /\ pc = "load"
    /\ \/ \E counts \in Datasets : data' = ReadCsv(counts) /\ Proceed("load")
       \/ data' = data /\ Raise("load")
    /\ UNCHANGED <<role, buckets, bucket, train_data, remaining_data, validation_data,
                   test_data, files, training_image, train_s3_key, validation_s3_key,
                   s3_input_train, s3_input_validation, s3, tuning_job_config,
                   training_job_definition, requests, hpo>>

\* train_data, remaining_data = train_test_split(data, test_size=0.3, ..., stratify=data["Species"])
SplitTrain ==
    /\ pc = "split1"
    /\ \E split \in {TrainTestSplit(DataFrame(data), data, TestSize1)} :
           IF split.ok
           THEN /\ train_data' = split.train
                /\ remaining_data' = split.test
                /\ Proceed("split1")
           ELSE Raise("split1") /\ UNCHANGED <<train_data, remaining_data>>
    /\ UNCHANGED <<role, buckets, bucket, data, validation_data,
                   test_data, files, training_image, train_s3_key, validation_s3_key,
                   s3_input_train, s3_input_validation, s3, tuning_job_config,
                   training_job_definition, requests, hpo>>

SecondSplitOfData == DataFrame(data)
\* the frame the second train_test_split is given
SecondSplitInput == remaining_data

\* validation_data, test_data = train_test_split(remaining_data, test_size=1 / 3, ...,
\*                                               stratify=remaining_data["Species"])
SplitValidation ==
    /\ pc = "split2"
    /\ \E split \in {TrainTestSplit(SecondSplitInput, data, TestSize2)} :
           IF split.ok
           THEN /\ validation_data' = split.train
                /\ test_data' = split.test
                /\ Proceed("split2")
           ELSE Raise("split2") /\ UNCHANGED <<validation_data, test_data>>
    /\ UNCHANGED <<role, buckets, bucket, data, train_data, remaining_data,
                   files, training_image, train_s3_key, validation_s3_key,
                   s3_input_train, s3_input_validation, s3, tuning_job_config,
                   training_job_definition, requests, hpo>>

\* frame[["Species"] + ...].to_csv(name, index=False, header=False)
ToCsv(step, name, frame) ==
    /\ pc = step
    /\ \/ files' = {f \in files : f.name # name} \cup {[name |-> name, rows |-> frame]}
          /\ Proceed(step)
       \/ files' = files /\ Raise(step)
    /\ UNCHANGED <<role, buckets, bucket, data, train_data, remaining_data, validation_data,
                   test_data, training_image, train_s3_key, validation_s3_key,
                   s3_input_train, s3_input_validation, s3, tuning_job_config,
                   training_job_definition, requests, hpo>>

WriteTrain == ToCsv("write_train", "train.csv", train_data)

WriteValidation == ToCsv("write_validation", "validation.csv", validation_data)

WriteTest == ToCsv("write_test", "test.csv", test_data)

\* training_image = sagemaker.image_uris.retrieve("xgboost", region, "1.0-1")
RetrieveImage ==
    /\ pc = "image"
    /\ \/ training_image' = Str("sagemaker-xgboost:1.0-1-cpu-py3") /\ Proceed("image")
       \/ training_image' = training_image /\ Raise("image")
    /\ UNCHANGED <<role, buckets, bucket, data, train_data, remaining_data, validation_data,
                   test_data, files, train_s3_key, validation_s3_key,
                   s3_input_train, s3_input_validation, s3, tuning_job_config,
                   training_job_definition, requests, hpo>>

TrainS3KeyBare == prefix
\* "{}/train".format(prefix)
TrainS3Key == prefix \o "/train"

\* "{}/validation".format(prefix)
ValidationS3Key == prefix \o "/validation"

\* "s3://{}/{}".format(b, key)
S3Uri(b, key) == "s3://" \o PyStr(b) \o "/" \o key

S3InputValidationOfTrainKey == S3Uri(bucket, train_s3_key')
\* s3_input_validation = "s3://{}/{}".format(bucket, validation_s3_key)
S3InputValidation == S3Uri(bucket, validation_s3_key')

\* train_s3_key = ...; validation_s3_key = ...; s3_input_train = ...; s3_input_validation = ...
BuildKeys ==
    /\ pc = "keys"
    /\ train_s3_key' = TrainS3Key
    /\ validation_s3_key' = ValidationS3Key
    /\ s3_input_train' = S3Uri(bucket, train_s3_key')
    /\ s3_input_validation' = S3InputValidation
    /\ Proceed("keys")
    /\ UNCHANGED <<role, buckets, bucket, data, train_data, remaining_data, validation_data,
                   test_data, files, training_image, s3, tuning_job_config,
                   training_job_definition, requests, hpo>>

\* boto3.Session().resource("s3").Bucket(bucket).Object(key).upload_file(filename):
\* Bucket(None) raises ValueError, a missing file or a failed request raises too,
\* and a put replaces the object of the same key
UploadFile(step, key, filename) ==
    /\ pc = step
    /\ IF bucket = None \/ ~(\E f \in files : f.name = filename)
       THEN s3' = s3 /\ Raise(step)
       ELSE \/ s3' = s3 /\ Raise(step)
            \/ /\ s3' = {o \in s3 : ~(o.bucket = PyStr(bucket) /\ o.key = key)} \cup
                          {[bucket |-> PyStr(bucket),
                            key    |-> key,
                            file   |-> filename,
                            body   |-> (CHOOSE f \in files : f.name = filename).rows]}
               /\ Proceed(step)
    /\ UNCHANGED <<role, buckets, bucket, data, train_data, remaining_data, validation_data,
                   test_data, files, training_image, train_s3_key, validation_s3_key,
                   s3_input_train, s3_input_validation, tuning_job_config,
                   training_job_definition, requests, hpo>>

UploadTrain == UploadFile("upload_train", OsPathJoin(train_s3_key, "train.csv"), "train.csv")

ValidationFileIsTest == "test.csv"
\* the local file the second upload_file sends
ValidationFile == "validation.csv"

UploadValidation ==
    UploadFile("upload_validation", OsPathJoin(validation_s3_key, ValidationFile), ValidationFile)

TuningJobConfigFourParallel ==
    [ParameterRanges |->
        [ContinuousParameterRanges |->
            <<[Name |-> "eta", MinValue |-> "0.1", MaxValue |-> "0.5"],
              [Name |-> "min_child_weight", MinValue |-> "0", MaxValue |-> "120"],
              [Name |-> "subsample", MinValue |-> "0.5", MaxValue |-> "1"],
              [Name |-> "colsample_bytree", MinValue |-> "0.5", MaxValue |-> "1"],
              [Name |-> "gamma", MinValue |-> "0", MaxValue |-> "5"]>>,
         IntegerParameterRanges |->
            <<[Name |-> "max_depth", MinValue |-> "1", MaxValue |-> "10"]>>],
     ResourceLimits |-> [MaxNumberOfTrainingJobs |-> 9, MaxParallelTrainingJobs |-> 4],
     Strategy |-> "Bayesian",
     HyperParameterTuningJobObjective |->
        [MetricName |-> "validation:mlogloss", Type |-> "Minimize"],
     RandomSeed |-> 123]
\* the dict literal bound to tuning_job_config
TuningJobConfig ==
    [ParameterRanges |->
        [ContinuousParameterRanges |->
            <<[Name |-> "eta", MinValue |-> "0.1", MaxValue |-> "0.5"],
              [Name |-> "min_child_weight", MinValue |-> "0", MaxValue |-> "120"],
              [Name |-> "subsample", MinValue |-> "0.5", MaxValue |-> "1"],
              [Name |-> "colsample_bytree", MinValue |-> "0.5", MaxValue |-> "1"],
              [Name |-> "gamma", MinValue |-> "0", MaxValue |-> "5"]>>,
         IntegerParameterRanges |->
            <<[Name |-> "max_depth", MinValue |-> "1", MaxValue |-> "10"]>>],
     ResourceLimits |-> [MaxNumberOfTrainingJobs |-> 9, MaxParallelTrainingJobs |-> 3],
     Strategy |-> "Bayesian",
     HyperParameterTuningJobObjective |->
        [MetricName |-> "validation:mlogloss", Type |-> "Minimize"],
     RandomSeed |-> 123]

\* tuning_job_config = {...}
BuildTuningConfig ==
    /\ pc = "tuning_config"
    /\ tuning_job_config' = TuningJobConfig
    /\ Proceed("tuning_config")
    /\ UNCHANGED <<role, buckets, bucket, data, train_data, remaining_data, validation_data,
                   test_data, files, training_image, train_s3_key, validation_s3_key,
                   s3_input_train, s3_input_validation, s3,
                   training_job_definition, requests, hpo>>

\* one entry of InputDataConfig
Channel(name, uri) ==
    [ChannelName     |-> name,
     CompressionType |-> "None",
     ContentType     |-> "csv",
     DataSource      |->
        [S3DataSource |-> [S3DataDistributionType |-> "FullyReplicated",
                           S3DataType             |-> "S3Prefix",
                           S3Uri                  |-> uri]]]

\* "s3://{}/{}output".format(bucket, prefix)
S3OutputPath == "s3://" \o PyStr(bucket) \o "/" \o prefix \o "output"

\* the dict literal bound to training_job_definition
TrainingJobDefinition(image) ==
    [AlgorithmSpecification |-> [TrainingImage |-> image, TrainingInputMode |-> "File"],
     InputDataConfig        |-> <<Channel("train", s3_input_train),
                                  Channel("validation", s3_input_validation)>>,
     OutputDataConfig       |-> [S3OutputPath |-> S3OutputPath],
     ResourceConfig         |-> [InstanceCount  |-> 1,
                                 InstanceType   |-> "ml.m5.large",
                                 VolumeSizeInGB |-> 5],
     RoleArn                |-> role,
     StaticHyperParameters  |-> [objective   |-> "multi:softmax",
                                 num_class   |-> "3",
                                 eval_metric |-> "mlogloss",
                                 num_round   |-> "100"],
     StoppingCondition      |-> [MaxRuntimeInSeconds |-> 300]]

\* training_image = sagemaker.image_uris.retrieve(...); training_job_definition = {...}
BuildTrainingDefinition ==
    /\ pc = "training_def"
    /\ \/ /\ training_image' = Str("sagemaker-xgboost:1.0-1-cpu-py3")
          /\ training_job_definition' = TrainingJobDefinition(training_image')
          /\ Proceed("training_def")
       \/ UNCHANGED <<training_image, training_job_definition>> /\ Raise("training_def")
    /\ UNCHANGED <<role, buckets, bucket, data, train_data, remaining_data, validation_data,
                   test_data, files, train_s3_key, validation_s3_key,
                   s3_input_train, s3_input_validation, s3, tuning_job_config,
                   requests, hpo>>

tuning_job_name == "iris-training-job"

\* the keyword arguments of smclient.create_hyper_parameter_tuning_job
LaunchRequest ==
    [HyperParameterTuningJobName   |-> tuning_job_name,
     HyperParameterTuningJobConfig |-> tuning_job_config,
     TrainingJobDefinition         |-> training_job_definition]

LaunchWithRetry ==
    /\ pc = "launch"
    /\ requests' = Append(requests, LaunchRequest)
    /\ \/ /\ hpo' = [status  |-> "InProgress",
                     limits  |-> tuning_job_config.ResourceLimits,
                     started |-> 0,
                     running |-> 0]
          /\ Proceed("launch")
       \/ hpo' = hpo /\ UNCHANGED <<pc, err>>
    /\ UNCHANGED <<role, buckets, bucket, data, train_data, remaining_data, validation_data,
                   test_data, files, training_image, train_s3_key, validation_s3_key,
                   s3_input_train, s3_input_validation, s3, tuning_job_config,
                   training_job_definition>>
\* smclient.create_hyper_parameter_tuning_job(...): one call, which the service
\* accepts (the tuning job exists from then on) or answers with an error
Launch ==
    /\ pc = "launch"
    /\ requests' = Append(requests, LaunchRequest)
    /\ \/ /\ hpo' = [status  |-> "InProgress",
                     limits  |-> tuning_job_config.ResourceLimits,
                     started |-> 0,
                     running |-> 0]
          /\ Proceed("launch")
       \/ hpo' = hpo /\ Raise("launch")
    /\ UNCHANGED <<role, buckets, bucket, data, train_data, remaining_data, validation_data,
                   test_data, files, training_image, train_s3_key, validation_s3_key,
                   s3_input_train, s3_input_validation, s3, tuning_job_config,
                   training_job_definition>>

(***************************************************************************)
(* The tuning job inside SageMaker, which runs the training jobs under the *)
(* ResourceLimits it was created with. The notebook takes no part in it.   *)
(***************************************************************************)
StartTrainingJob ==
    /\ hpo.status = "InProgress"
    /\ hpo.running < hpo.limits.MaxParallelTrainingJobs
    /\ hpo.started < hpo.limits.MaxNumberOfTrainingJobs
    /\ hpo' = [hpo EXCEPT !.started = @ + 1, !.running = @ + 1]
    /\ UNCHANGED nbvars

FinishTrainingJob ==
    /\ hpo.status = "InProgress"
    /\ hpo.running > 0
    /\ hpo' = [hpo EXCEPT !.running = @ - 1,
                          !.status = IF hpo.running = 1 /\
                                        hpo.started = hpo.limits.MaxNumberOfTrainingJobs
                                     THEN "Completed" ELSE @]
    /\ UNCHANGED nbvars

Next ==
    \/ PipInstall
    \/ Imports
    \/ GetRole
    \/ ConfigureStorage
    \/ LoadData
    \/ SplitTrain
    \/ SplitValidation
    \/ WriteTrain
    \/ WriteValidation
    \/ WriteTest
    \/ RetrieveImage
    \/ BuildKeys
    \/ UploadTrain
    \/ UploadValidation
    \/ BuildTuningConfig
    \/ BuildTrainingDefinition
    \/ Launch
    \/ StartTrainingJob
    \/ FinishTrainingJob

Spec == Init /\ [][Next]_vars

(***************************************************************************)
(* Properties.                                                             *)
(***************************************************************************)
\* the S3 URI of an object
ObjectUri(o) == "s3://" \o o.bucket \o "/" \o o.key

\* whether an S3Prefix data source of URI `uri` takes in object `o`
PrefixMatches(uri, o) == StartsWith(ObjectUri(o), uri)

\* the S3Uri of channel i of a training job definition
ChannelUri(definition, i) == definition.InputDataConfig[i].DataSource.S3DataSource.S3Uri

Submitted == requests # <<>>

\* C1: once both splits of the 150-row dataset are done, the training
\* partition holds 105 rows (70%), the validation partition 30 (20%) and the
\* test partition 15 (10%).
C1_SplitSizes ==
    (Len(data) = 150 /\ Executed("split2")) =>
        /\ Len(train_data) = 105
        /\ Len(validation_data) = 30
        /\ Len(test_data) = 15
        /\ 10 * Len(train_data) = 7 * Len(data)
        /\ 10 * Len(validation_data) = 2 * Len(data)
        /\ 10 * Len(test_data) = 1 * Len(data)

C1_Witness == Len(data) = 150 /\ Executed("split2") /\ Len(test_data) = 15

\* C2: after the split step the three partitions are pairwise disjoint and
\* together hold exactly the rows loaded from iris.csv.
C2_Partition ==
    Executed("split2") =>
        /\ Rows(train_data) \cap Rows(validation_data) = {}
        /\ Rows(train_data) \cap Rows(test_data) = {}
        /\ Rows(validation_data) \cap Rows(test_data) = {}
        /\ Rows(train_data) \cup Rows(validation_data) \cup Rows(test_data) = DOMAIN data
        /\ Len(train_data) + Len(validation_data) + Len(test_data) = Len(data)

C2_Witness ==
    /\ Executed("split2")
    /\ Len(data) = 150
    /\ Rows(test_data) = {4, 10, 14, 26, 39, 79, 84, 89, 93, 97, 101, 113, 116, 122, 125}

\* C3: with 50 rows per species, each species has 35 rows in the training
\* partition, 15 among the remaining rows, and after the second split 10 in
\* the validation and 5 in the test partition: in every partition its share
\* is its share of the whole dataset.
C3_Stratified ==
    (ClassCounts(DataFrame(data), data) = <<50, 50, 50>>) =>
        /\ Executed("split1") =>
              \A k \in 1..3 :
                 /\ Cardinality(ClassRows(train_data, data, k)) = 35
                 /\ Cardinality(ClassRows(remaining_data, data, k)) = 15
        /\ Executed("split2") =>
              \A k \in 1..3 :
                 /\ Cardinality(ClassRows(validation_data, data, k)) = 10
                 /\ Cardinality(ClassRows(test_data, data, k)) = 5
                 /\ \A part \in {train_data, validation_data, test_data} :
                       Cardinality(ClassRows(part, data, k)) * Len(data)
                           = Cardinality(ClassRows(DataFrame(data), data, k)) * Len(part)

C3_Witness ==
    /\ ClassCounts(DataFrame(data), data) = <<50, 50, 50>>
    /\ Executed("split2")
    /\ Len(remaining_data) = 45
    /\ \A k \in 1..3 : Cardinality(ClassRows(test_data, data, k)) = 5

\* the object the run uploaded from local file `name`, holding rows `frame`
Uploaded(name, frame) == \E o \in s3 : o.file = name /\ o.body = frame

C4_State ==
    /\ Len(requests) <= 1
    /\ pc = "done" => Len(requests) = 1
    /\ Submitted =>
          /\ Uploaded("train.csv", train_data)
          /\ Uploaded("validation.csv", validation_data)
          /\ tuning_job_config = TuningJobConfig
          /\ training_job_definition # NoDict
          /\ requests[1].HyperParameterTuningJobConfig = tuning_job_config
          /\ requests[1].TrainingJobDefinition = training_job_definition

C4_Step ==
    /\ pc' # pc => pc # "halted" /\ pc # "done" /\ pc' \in {Succ(pc), "halted"}
    /\ C4_State'

\* C4: the statements of a run execute once each, in the notebook's order,
\* with no loop and no retry: create_hyper_parameter_tuning_job is called at
\* most once, exactly once in a run that reaches the end, and only after
\* train.csv and validation.csv are uploaded and both dicts are built.
C4_LinearRun == [][C4_Step]_vars

C4_Witness ==
    /\ pc = "done"
    /\ Len(requests) = 1
    /\ Uploaded("train.csv", train_data)
    /\ Uploaded("validation.csv", validation_data)

C5_Step ==
    /\ err # "none" => UNCHANGED nbvars
    /\ (err = "none" /\ err' # "none") => (err' = pc /\ pc' = "halted")
    /\ pc' = "halted" => err' # "none"
    /\ err' \in {"upload_train", "upload_validation"} =>
          requests' = <<>> /\ hpo'.status = "absent"

\* C5: an exception raised by a statement is caught nowhere: the run stops at
\* that statement and executes no later one; when an upload fails, no tuning
\* job is submitted.
C5_ErrorsPropagate == [][C5_Step]_vars

C5_Witness ==
    /\ err = "upload_validation"
    /\ pc = "halted"
    /\ Uploaded("train.csv", train_data)
    /\ requests = <<>>

C6_Step ==
    /\ hpo'.running <= 3
    /\ hpo'.started <= 9
    /\ hpo'.status # "absent" =>
          /\ requests'[1].HyperParameterTuningJobConfig.ResourceLimits
                = [MaxNumberOfTrainingJobs |-> 9, MaxParallelTrainingJobs |-> 3]
          /\ hpo'.limits = requests'[1].HyperParameterTuningJobConfig.ResourceLimits
    /\ (hpo'.started # hpo.started \/ hpo'.running # hpo.running) => UNCHANGED nbvars

\* C6: the tuning job is created with the limits 3 and 9; under them at most
\* 3 training jobs run at a time and at most 9 are ever started, and no
\* statement of the notebook starts or ends a training job.
C6_ResourceLimits == [][C6_Step]_vars

C6_Witness == hpo.running = 3 /\ hpo.started = 9 /\ pc = "done"

\* C7: in a submitted job, each channel's S3Uri is s3://<bucket>/iris/train
\* (or .../iris/validation), a prefix of the URI of the object uploaded from
\* that dataset's file; the two prefixes differ, lie in one bucket, and
\* neither takes in the other dataset's object.
C7_ChannelPrefixes ==
    Submitted =>
        LET definition == requests[1].TrainingJobDefinition
            train_uri  == ChannelUri(definition, 1)
            valid_uri  == ChannelUri(definition, 2)
        IN  /\ train_uri = "s3://" \o PyStr(bucket) \o "/iris/train"
            /\ valid_uri = "s3://" \o PyStr(bucket) \o "/iris/validation"
            /\ train_uri # valid_uri
            /\ \E o \in s3 : o.file = "train.csv" /\ o.body = train_data
                                /\ o.bucket = PyStr(bucket) /\ PrefixMatches(train_uri, o)
            /\ \E o \in s3 : o.file = "validation.csv" /\ o.body = validation_data
                                /\ o.bucket = PyStr(bucket) /\ PrefixMatches(valid_uri, o)
            /\ \A o \in s3 :
                  /\ o.file = "train.csv" => ~PrefixMatches(valid_uri, o)
                  /\ o.file = "validation.csv" => ~PrefixMatches(train_uri, o)

C7_Witness ==
    /\ Submitted
    /\ bucket = Str("lab-notebook-2")
    /\ \E o \in s3 : o.key = "iris/validation/validation.csv"
    /\ \E o \in s3 : o.key = "iris/train/train.csv"

\* C8: once list_buckets has answered, bucket is the first listed name that
\* starts with "lab-notebook-", or None when no listed name does; the step can
\* then complete, and the later statements build their URIs from None.
C8_FirstLabBucket ==
    bucket # Unbound =>
        /\ bucket = None <=> \A i \in 1..Len(buckets) : ~StartsWith(buckets[i], "lab-notebook-")
        /\ bucket # None =>
              \E i \in 1..Len(buckets) :
                 /\ bucket = Str(buckets[i])
                 /\ StartsWith(buckets[i], "lab-notebook-")
                 /\ \A j \in 1..(i - 1) : ~StartsWith(buckets[j], "lab-notebook-")
        /\ (bucket = None /\ Executed("keys")) =>
              /\ s3_input_train = "s3://None/iris/train"
              /\ s3_input_validation = "s3://None/iris/validation"

C8_Witness ==
    /\ buckets = <<"lab-notebook">>
    /\ bucket = None
    /\ pc = "upload_train"
    /\ err = "none"
    /\ s3_input_train = "s3://None/iris/train"

\* C9: test.csv is written to the working directory and uploaded nowhere: the
\* run uploads only train.csv and validation.csv, the submitted definition has
\* exactly the channels train and validation, and no object under either
\* channel's prefix holds a row of the test partition.
C9_TestStaysLocal ==
    /\ Executed("write_test") => \E f \in files : f.name = "test.csv" /\ f.rows = test_data
    /\ \A o \in s3 :
          /\ o.file \in {"train.csv", "validation.csv"}
          /\ o.key \in {"iris/train/train.csv", "iris/validation/validation.csv"}
          /\ Rows(o.body) \cap Rows(test_data) = {}
    /\ Submitted =>
          LET definition == requests[1].TrainingJobDefinition
          IN  /\ Len(definition.InputDataConfig) = 2
              /\ definition.InputDataConfig[1].ChannelName = "train"
              /\ definition.InputDataConfig[2].ChannelName = "validation"
              /\ \A i \in 1..2 : \A o \in s3 :
                    PrefixMatches(ChannelUri(definition, i), o) =>
                        Rows(o.body) \cap Rows(test_data) = {}

C9_Witness ==
    /\ pc = "done"
    /\ test_data # <<>>
    /\ \E f \in files : f.name = "test.csv" /\ f.rows = test_data
    /\ Cardinality(s3) = 2

\* C10: the submitted S3OutputPath is s3://<bucket>/irisoutput, and no object
\* URI below it (the path, "/", anything) starts with the S3Uri of the train
\* or the validation channel.
C10_OutputOutsideInputs ==
    Submitted =>
        LET definition == requests[1].TrainingJobDefinition
            output     == definition.OutputDataConfig.S3OutputPath
        IN  /\ output = "s3://" \o PyStr(bucket) \o "/irisoutput"
            /\ \A i \in 1..2 :
                  /\ ~StartsWith(output \o "/", ChannelUri(definition, i))
                  /\ ~StartsWith(ChannelUri(definition, i), output \o "/")

C10_Witness ==
    /\ Submitted
    /\ requests[1].TrainingJobDefinition.OutputDataConfig.S3OutputPath
          = "s3://lab-notebook-1/irisoutput"
    /\ hpo.status = "InProgress"

====
